---- MODULE Spec2Model ----
(***************************************************************************)
(* Person-extraction pipeline of the City of Adelaide repository:          *)
(* provider registry (LLMFactory), tolerant JSON extraction                *)
(* (extractJsonFromText), shape normalisation (normalizePersonsData),      *)
(* schema validation (jsonschema against person-schema.json) and the       *)
(* orchestrator extractPersonFromDocument in its two source versions.      *)
(***************************************************************************)
EXTENDS Integers, Sequences, FiniteSets, TLC

VARIABLES
    providers,        \* LLMFactory.providers: own keys -> factory
    providerClasses,  \* LLMFactory.providerClasses: own keys -> class
    defaultProvider,  \* LLMFactory.defaultProvider
    nextInstance,     \* number of provider instances constructed so far
    lastCreate,       \* outcome of the last LLMFactory.create call
    lastOp,           \* the last other registry call: arguments, outcome, registry before it
    environment,      \* what is installed: per live backend its module and its SDK package
    registerAll,      \* position and results of the registerAllProviders call
    pc,               \* position of the extractPersonFromDocument call
    impl,             \* which source version of the orchestrator is running
    call,             \* locals of the running extractPersonFromDocument call
    result,           \* value the call resolved to
    normIn,           \* argument of the last normalizePersonsData application
    normOut,          \* its results on the value and on its three wrappers
    valIn,            \* instance of the last validator.validate application
    valOut,           \* its ValidatorResult
    textIn,           \* argument of the last extractJsonFromText application
    textOut,          \* its result, and that result normalized
    docIn,            \* document text of the last prompt built
    promptOut,        \* the prompt built from it
    parked,           \* a second extractPersonFromDocument call, while the other one runs
    heap,             \* the mockResponses objects: reference -> canned responses by prompt
    instances,        \* the MockLLM instances constructed: their fields
    mockOut,          \* the last MockLLM.generateResponse call and what it returned
    providersInitialized,   \* the module variable of document-processor.js
    DEFAULT_LLM_PROVIDER,   \* process.env.DEFAULT_LLM_PROVIDER
    proc              \* the processWordDocument calls: position and locals of each

vars == <<providers, providerClasses, defaultProvider, nextInstance, lastCreate, lastOp,
          environment, registerAll,
          pc, impl, call, result, normIn, normOut, valIn, valOut, textIn, textOut,
          docIn, promptOut,
          parked, heap, instances, mockOut, providersInitialized, DEFAULT_LLM_PROVIDER, proc>>

registryVars == <<providers, providerClasses, defaultProvider, nextInstance, lastCreate,
                  lastOp, environment, registerAll>>
callVars == <<pc, impl, call, result>>
mockVars == <<heap, instances, mockOut>>
processVars == <<providersInitialized, DEFAULT_LLM_PROVIDER, proc>>
otherVars == <<parked, mockVars, processVars>>
pureVars == <<normIn, normOut, valIn, valOut, textIn, textOut, docIn, promptOut>>

(***************************************************************************)
(* Bounds of the model.                                                    *)
(***************************************************************************)
MaxSeqLen == 2        \* longest record sequence drawn as an input
MaxInstances == 2     \* provider instances constructed in one behaviour
MaxDocLen == 3        \* longest document text, in lexemes, a prompt is built from

(***************************************************************************)
(* JavaScript values as tagged records.  An object is the sequence of its  *)
(* own <<key, value>> pairs in insertion order.                            *)
(***************************************************************************)
JNull == [t |-> "null"]
JUndefined == [t |-> "undefined"]
JStr(s) == [t |-> "str", s |-> s]
JNum(n) == [t |-> "num", n |-> n]
JBool(b) == [t |-> "bool", b |-> b]
JArr(a) == [t |-> "arr", a |-> a]
JObj(o) == [t |-> "obj", o |-> o]

IsArray(v) == v.t = "arr"
IsObject(v) == v.t = "obj"

\* ToBoolean: the falsy values are undefined, null, "", 0 and false
Falsy(v) ==
    \/ v.t \in {"null", "undefined"}
    \/ v.t = "str" /\ v.s = ""
    \/ v.t = "num" /\ v.n = 0
    \/ v.t = "bool" /\ ~v.b

HasKey(o, k) == \E i \in 1..Len(o) : o[i][1] = k

\* property read data[k]: undefined on a missing key and on a primitive
Get(v, k) ==
    IF IsObject(v) /\ HasKey(v.o, k)
    THEN LET i == CHOOSE j \in 1..Len(v.o) : v.o[j][1] = k IN v.o[i][2]
    ELSE JUndefined

\* property write o[k] = x: a present key keeps its position
Put(o, k, x) ==
    IF HasKey(o, k)
    THEN [i \in 1..Len(o) |-> IF o[i][1] = k THEN <<k, x>> ELSE o[i]]
    ELSE Append(o, <<k, x>>)

(***************************************************************************)
(* Raw text as a sequence of lexemes.  A string literal, a keyword, a      *)
(* punctuation character, a run of whitespace, a fence marker and a prose  *)
(* word are one lexeme each; braces inside string literals do not occur.   *)
(***************************************************************************)
Lx(k, v) == [k |-> k, v |-> v]
LBrace == Lx("punct", "{")
RBrace == Lx("punct", "}")
LBrack == Lx("punct", "[")
RBrack == Lx("punct", "]")
Comma == Lx("punct", ",")
Colon == Lx("punct", ":")
Space == Lx("ws", " ")
Newline == Lx("ws", "nl")
Fence == Lx("fence", "fence")     \* the three-backtick marker
Word(w) == Lx("word", w)
StrLit(s) == Lx("str", s)
Lit(w) == Lx("lit", w)

IsWs(x) == x.k = "ws"

LitValue(w) ==
    CASE w = "null" -> JNull
      [] w = "true" -> JBool(TRUE)
      [] w = "false" -> JBool(FALSE)
      [] w = "0" -> JNum(0)
      [] OTHER -> JNum(1)

RECURSIVE SkipWs(_, _)
SkipWs(s, i) == IF i <= Len(s) /\ IsWs(s[i]) THEN SkipWs(s, i + 1) ELSE i

ParseFail == [ok |-> FALSE, v |-> JNull, i |-> 0]
ParseOk(v, i) == [ok |-> TRUE, v |-> v, i |-> i]

RECURSIVE ParseValue(_, _)
RECURSIVE ParseElements(_, _, _, _)
RECURSIVE ParseMembers(_, _, _, _)

\* one JSON value starting at or after lexeme i0
ParseValue(s, i0) ==
    LET i == SkipWs(s, i0) IN
    IF i > Len(s) THEN ParseFail
    ELSE IF s[i].k = "str" THEN ParseOk(JStr(s[i].v), i + 1)
    ELSE IF s[i].k = "lit" THEN ParseOk(LitValue(s[i].v), i + 1)
    ELSE IF s[i] = LBrack THEN ParseElements(s, i + 1, <<>>, TRUE)
    ELSE IF s[i] = LBrace THEN ParseMembers(s, i + 1, <<>>, TRUE)
    ELSE ParseFail

\* the elements of an array after "[" (first) or after "," (not first)
ParseElements(s, i0, acc, first) ==
    LET i == SkipWs(s, i0) IN
    IF i > Len(s) THEN ParseFail
    ELSE IF first /\ s[i] = RBrack THEN ParseOk(JArr(acc), i + 1)
    ELSE LET r == ParseValue(s, i) IN
         IF ~r.ok THEN ParseFail
         ELSE LET j == SkipWs(s, r.i) IN
              IF j > Len(s) THEN ParseFail
              ELSE IF s[j] = RBrack THEN ParseOk(JArr(Append(acc, r.v)), j + 1)
              ELSE IF s[j] = Comma THEN ParseElements(s, j + 1, Append(acc, r.v), FALSE)
              ELSE ParseFail

\* the members of an object after "{" (first) or after "," (not first)
ParseMembers(s, i0, acc, first) ==
    LET i == SkipWs(s, i0) IN
    IF i > Len(s) THEN ParseFail
    ELSE IF first /\ s[i] = RBrace THEN ParseOk(JObj(acc), i + 1)
    ELSE IF s[i].k # "str" THEN ParseFail
    ELSE LET c == SkipWs(s, i + 1) IN
         IF c > Len(s) \/ s[c] # Colon THEN ParseFail
         ELSE LET r == ParseValue(s, c + 1) IN
              IF ~r.ok THEN ParseFail
              ELSE LET j == SkipWs(s, r.i)
                       acc2 == Put(acc, s[i].v, r.v) IN
                   IF j > Len(s) THEN ParseFail
                   ELSE IF s[j] = RBrace THEN ParseOk(JObj(acc2), j + 1)
                   ELSE IF s[j] = Comma THEN ParseMembers(s, j + 1, acc2, FALSE)
                   ELSE ParseFail

\* JSON.parse(text): ok = FALSE stands for the SyntaxError it throws
JSONparse(s) ==
    LET r == ParseValue(s, 1) IN
    IF r.ok /\ SkipWs(s, r.i) > Len(s) THEN [ok |-> TRUE, v |-> r.v]
    ELSE [ok |-> FALSE, v |-> JNull]

RECURSIVE JoinWith(_, _)
JoinWith(parts, sep) ==
    IF Len(parts) = 0 THEN <<>>
    ELSE IF Len(parts) = 1 THEN parts[1]
    ELSE parts[1] \o <<sep>> \o JoinWith(Tail(parts), sep)

\* JSON.stringify(value) without indentation
RECURSIVE JSONstringify(_)
JSONstringify(v) ==
    CASE v.t = "null" -> <<Lit("null")>>
      [] v.t = "str" -> <<StrLit(v.s)>>
      [] v.t = "bool" -> <<Lit(IF v.b THEN "true" ELSE "false")>>
      [] v.t = "num" -> <<Lit(IF v.n = 0 THEN "0" ELSE "1")>>
      [] v.t = "arr" ->
            <<LBrack>> \o JoinWith([i \in 1..Len(v.a) |-> JSONstringify(v.a[i])], Comma)
                       \o <<RBrack>>
      [] v.t = "obj" ->
            <<LBrace>> \o JoinWith([i \in 1..Len(v.o) |->
                              <<StrLit(v.o[i][1]), Colon>> \o JSONstringify(v.o[i][2])], Comma)
                       \o <<RBrace>>
      [] OTHER -> <<>>

(***************************************************************************)
(* src/utils/json-helpers.js                                               *)
(***************************************************************************)
Min(a, b) == IF a <= b THEN a ELSE b

Indices(s, x) == {i \in 1..Len(s) : s[i] = x}
IndexOf(s, x) == IF Indices(s, x) = {} THEN 0
                 ELSE CHOOSE i \in Indices(s, x) : \A j \in Indices(s, x) : i <= j
LastIndexOf(s, x) == IF Indices(s, x) = {} THEN 0
                     ELSE CHOOSE i \in Indices(s, x) : \A j \in Indices(s, x) : j <= i

\* the sequence from lexeme i on
From(s, i) == SubSeq(s, i, Len(s))

RECURSIVE TrimEnd(_)
TrimEnd(s) == IF Len(s) > 0 /\ IsWs(s[Len(s)]) THEN TrimEnd(SubSeq(s, 1, Len(s) - 1)) ELSE s

\* String.prototype.trim
Trim(s) == TrimEnd(From(s, SkipWs(s, 1)))

StartsWith(s, x) == Len(s) > 0 /\ s[1] = x

\* text.match(/```(?:json)?\s*([\s\S]*?)```/): group 1 of the leftmost match,
\* found = FALSE when the text holds no second fence marker
CodeBlockMatch(s) ==
    LET f1 == IndexOf(s, Fence)
        afterJson == IF f1 < Len(s) /\ s[f1 + 1] = Word("json") THEN f1 + 2 ELSE f1 + 1
        start == SkipWs(s, afterJson)
        rest == From(s, start)
        f2 == IndexOf(rest, Fence) IN
    IF f1 = 0 \/ f2 = 0 THEN [found |-> FALSE, group |-> <<>>]
    ELSE [found |-> TRUE, group |-> SubSeq(rest, 1, f2 - 1)]

\* cleaned.replace(/```json\s*/g, '')
RECURSIVE StripJsonFences(_)
StripJsonFences(s) ==
    IF Len(s) = 0 THEN <<>>
    ELSE IF s[1] = Fence /\ Len(s) >= 2 /\ s[2] = Word("json")
         THEN StripJsonFences(From(s, SkipWs(s, 3)))
         ELSE <<s[1]>> \o StripJsonFences(Tail(s))

\* cleaned.replace(/```\s*/g, '')
RECURSIVE StripFences(_)
StripFences(s) ==
    IF Len(s) = 0 THEN <<>>
    ELSE IF s[1] = Fence THEN StripFences(From(s, SkipWs(s, 2)))
         ELSE <<s[1]>> \o StripFences(Tail(s))

\* CleanFences that only removes the fence markers
CleanFencesStripsOnly(text) ==
    IF Indices(text, Fence) = {} THEN text
    ELSE StripFences(StripJsonFences(text))

\* the text after the markdown handling of extractJsonFromText
CleanFences(text) ==
    IF Indices(text, Fence) = {} THEN text
    ELSE LET m == CodeBlockMatch(text) IN
         IF m.found /\ m.group # <<>> THEN Trim(m.group)
         ELSE StripFences(StripJsonFences(text))

\* a match from the first opener to the first closer after it
LazyMatch(s, open, close) ==
    LET a == IndexOf(s, open)
        b == IF a = 0 THEN 0 ELSE IndexOf(From(s, a), close) IN
    IF a = 0 \/ b = 0 THEN [found |-> FALSE, text |-> <<>>]
    ELSE [found |-> TRUE, text |-> SubSeq(s, a, a + b - 1)]

\* cleaned.match(/\{[\s\S]*\}/) and cleaned.match(/\[[\s\S]*\]/): first opener to
\* last closer
GreedyMatch(s, open, close) ==
    LET a == IndexOf(s, open)
        b == LastIndexOf(s, close) IN
    IF a = 0 \/ b < a THEN [found |-> FALSE, text |-> <<>>]
    ELSE [found |-> TRUE, text |-> SubSeq(s, a, b)]

\* JSON.parse(match[0]), null when it throws (the inner catch)
ParseOrNull(s) == LET r == JSONparse(s) IN IF r.ok THEN r.v ELSE JNull

\* the strategies tried after the direct parse failed
ExtractFromCleaned(cleaned) ==
    IF StartsWith(Trim(cleaned), LBrace)
    THEN LET m == GreedyMatch(cleaned, LBrace, RBrace) IN
         IF m.found THEN ParseOrNull(m.text) ELSE JNull
    ELSE IF StartsWith(Trim(cleaned), LBrack)
    THEN LET m == GreedyMatch(cleaned, LBrack, RBrack) IN
         IF m.found THEN ParseOrNull(m.text) ELSE JNull
    ELSE JNull

extractJsonFromText(text) ==
    IF text = <<>> THEN JNull
    ELSE LET direct == JSONparse(text) IN
         IF direct.ok THEN direct.v
         ELSE ExtractFromCleaned(CleanFences(text))

\* normalizePersonsData without the "people" wrapper
normalizeWithoutPeople(data) ==
    IF Falsy(data) THEN JArr(<<>>)
    ELSE IF IsArray(data) THEN data
    ELSE IF IsArray(Get(data, "persons")) THEN Get(data, "persons")
    ELSE IF IsArray(Get(data, "data")) THEN Get(data, "data")
    ELSE JArr(<<data>>)

\* normalizePersonsData without the Array.isArray(data) test
normalizeWrapsArrays(data) ==
    IF Falsy(data) THEN JArr(<<>>)
    ELSE IF IsArray(Get(data, "persons")) THEN Get(data, "persons")
    ELSE IF IsArray(Get(data, "people")) THEN Get(data, "people")
    ELSE IF IsArray(Get(data, "data")) THEN Get(data, "data")
    ELSE JArr(<<data>>)

\* normalizePersonsData returning a lone object as it is
normalizeWithoutPromotion(data) ==
    IF Falsy(data) THEN JArr(<<>>)
    ELSE IF IsArray(data) THEN data
    ELSE IF IsArray(Get(data, "persons")) THEN Get(data, "persons")
    ELSE IF IsArray(Get(data, "people")) THEN Get(data, "people")
    ELSE IF IsArray(Get(data, "data")) THEN Get(data, "data")
    ELSE data

\* normalizePersonsData that wraps objects only
normalizeKeepsPrimitives(data) ==
    IF Falsy(data) THEN JArr(<<>>)
    ELSE IF IsArray(data) THEN data
    ELSE IF IsArray(Get(data, "persons")) THEN Get(data, "persons")
    ELSE IF IsArray(Get(data, "people")) THEN Get(data, "people")
    ELSE IF IsArray(Get(data, "data")) THEN Get(data, "data")
    ELSE IF IsObject(data) THEN JArr(<<data>>)
    ELSE data

\* normalizePersonsData testing the wrappers in the order persons, data, people
normalizeDataBeforePeople(data) ==
    IF Falsy(data) THEN JArr(<<>>)
    ELSE IF IsArray(data) THEN data
    ELSE IF IsArray(Get(data, "persons")) THEN Get(data, "persons")
    ELSE IF IsArray(Get(data, "data")) THEN Get(data, "data")
    ELSE IF IsArray(Get(data, "people")) THEN Get(data, "people")
    ELSE JArr(<<data>>)

normalizePersonsData(data) ==
    IF Falsy(data) THEN JArr(<<>>)
    ELSE IF IsArray(data) THEN data
    ELSE IF IsArray(Get(data, "persons")) THEN Get(data, "persons")
    ELSE IF IsArray(Get(data, "people")) THEN Get(data, "people")
    ELSE IF IsArray(Get(data, "data")) THEN Get(data, "data")
    ELSE JArr(<<data>>)

(***************************************************************************)
(* The Person Record schema (person-schema.json) and the jsonschema        *)
(* Validator applied to it.                                                *)
(***************************************************************************)
NoEnum == <<>>
GenderEnum == <<JStr("Male"), JStr("Female"), JNull>>

\* "properties" of person-schema.json, in the order of the file
PersonProperties == <<
    [name |-> "first_name",   types |-> <<"string">>,         enum |-> NoEnum,     format |-> ""],
    [name |-> "middle_names", types |-> <<"string", "null">>, enum |-> NoEnum,     format |-> ""],
    [name |-> "last_name",    types |-> <<"string">>,         enum |-> NoEnum,     format |-> ""],
    [name |-> "gender",       types |-> <<"string", "null">>, enum |-> GenderEnum, format |-> ""],
    [name |-> "birth_date",   types |-> <<"string", "null">>, enum |-> NoEnum,     format |-> "date"],
    [name |-> "birth_place",  types |-> <<"string", "null">>, enum |-> NoEnum,     format |-> ""],
    [name |-> "death_date",   types |-> <<"string", "null">>, enum |-> NoEnum,     format |-> "date"],
    [name |-> "death_place",  types |-> <<"string", "null">>, enum |-> NoEnum,     format |-> ""],
    [name |-> "age_at_death", types |-> <<"string", "null">>, enum |-> NoEnum,     format |-> ""],
    [name |-> "burial_place", types |-> <<"string", "null">>, enum |-> NoEnum,     format |-> ""] >>

\* "required" of person-schema.json
PersonRequired == <<"first_name", "last_name">>

personSchema == [type |-> "object", properties |-> PersonProperties, required |-> PersonRequired]

\* the strings of the model that are full calendar dates (format "date")
DateStrings == {"1850-03-15", "1920-11-23"}
IsDate(s) == s \in DateStrings

\* the JSON Schema type name of a value
TypeName(v) ==
    CASE v.t = "str" -> "string"
      [] v.t = "null" -> "null"
      [] v.t = "num" -> "number"
      [] v.t = "bool" -> "boolean"
      [] v.t = "arr" -> "array"
      [] v.t = "obj" -> "object"
      [] OTHER -> "undefined"

Range(q) == {q[i] : i \in 1..Len(q)}

RECURSIVE Flatten(_)
Flatten(qs) == IF Len(qs) = 0 THEN <<>> ELSE qs[1] \o Flatten(Tail(qs))

\* a ValidationError: the path of the offending value below the validated
\* instance, the failed keyword and its argument
ValidationError(path, name, argument) == [path |-> path, name |-> name, argument |-> argument]

\* errors of one property value against its subschema: type, enum, format
PropertyErrors(v, prop, path) ==
    (IF TypeName(v) \in Range(prop.types) THEN <<>>
     ELSE <<ValidationError(path, "type", prop.types[1])>>)
    \o (IF prop.enum = NoEnum \/ v \in Range(prop.enum) THEN <<>>
        ELSE <<ValidationError(path, "enum", "Male,Female,null")>>)
    \o (IF prop.format = "date" /\ v.t = "str" /\ ~IsDate(v.s)
        THEN <<ValidationError(path, "format", prop.format)>> ELSE <<>>)

\* validator.validate(instance, schema).errors for an object schema: the
\* keywords type, properties and required, in the order of the schema file
ValidateErrors(instance, schema, path) ==
    IF ~IsObject(instance)
    THEN <<ValidationError(path, "type", schema.type)>>
    ELSE Flatten([i \in 1..Len(schema.properties) |->
                    LET prop == schema.properties[i] IN
                    IF HasKey(instance.o, prop.name)
                    THEN PropertyErrors(Get(instance, prop.name), prop, Append(path, prop.name))
                    ELSE <<>>])
         \o Flatten([i \in 1..Len(schema.required) |->
                    IF HasKey(instance.o, schema.required[i]) THEN <<>>
                    ELSE <<ValidationError(path, "required", schema.required[i])>>])

ValidatorResult(errors) == [valid |-> errors = <<>>, errors |-> errors]

\* validatePerson with "last_name" left out of the required list
validatePersonLastNameOptional(instance) ==
    ValidatorResult(ValidateErrors(instance,
                                   [personSchema EXCEPT !.required = <<"first_name">>], <<>>))

\* validator.validate(instance, personSchema)
validatePerson(instance) == ValidatorResult(ValidateErrors(instance, personSchema, <<>>))

\* validator.validate(personsData, personsSchema): the collection is a sequence
\* and its elements have the shape of an object
validatePersons(instance) ==
    IF ~IsArray(instance)
    THEN ValidatorResult(<<ValidationError(<<>>, "type", "array")>>)
    ELSE ValidatorResult(
            Flatten([i \in 1..Len(instance.a) |->
                        IF IsObject(instance.a[i]) THEN <<>>
                        ELSE <<ValidationError(<<ToString(i - 1)>>, "type", "object")>>]))

\* the error descriptor names the field
NamesField(e, field) ==
    \/ e.name = "required" /\ e.argument = field
    \/ e.path # <<>> /\ e.path[Len(e.path)] = field

(***************************************************************************)
(* src/utils/llm/llm-factory.js: the provider registry                     *)
(***************************************************************************)
NullName == "<null>"          \* a name argument that is null or not passed
NoFactory == "<undefined>"    \* the value of a property that does not exist
InheritedFactory == "Object"  \* Object.prototype.constructor

\* property names every plain object inherits from Object.prototype
ObjectPrototypeKeys == {"constructor"}

Classes == {"MockLLM", "OpenAILLM", "AnthropicLLM"}

\* this.providers[name] and this.providerClasses[name] on a plain object
Lookup(map, name) ==
    IF name \in DOMAIN map THEN map[name]
    ELSE IF name \in ObjectPrototypeKeys THEN InheritedFactory
    ELSE NoFactory

\* map[name] = value
Assign(map, name, value) ==
    [n \in DOMAIN map \cup {name} |-> IF n = name THEN value ELSE map[n]]

NameFalsy(name) == name \in {NullName, ""}

NoError == [kind |-> "none", name |-> "", raw |-> <<>>]
NotRegisteredError(name) == [kind |-> "NotRegistered", name |-> name, raw |-> <<>>]
NoProviderError == [kind |-> "NoProviderRegistered", name |-> "", raw |-> <<>>]
ProviderError == [kind |-> "ProviderError", name |-> "", raw |-> <<>>]
TypeError == [kind |-> "TypeError", name |-> "", raw |-> <<>>]
SyntaxError == [kind |-> "SyntaxError", name |-> "", raw |-> <<>>]

NoInstance == [id |-> 0, class |-> "none"]
Instance(id, class) == [id |-> id, class |-> class]

\* LLMFactory.create(name): what it throws or the instance its factory returns
create(name) ==
    LET providerName == IF NameFalsy(name) THEN defaultProvider ELSE name IN
    IF NameFalsy(providerName) THEN [threw |-> TRUE, error |-> NoProviderError, instance |-> NoInstance]
    ELSE IF Lookup(providers, providerName) = NoFactory
    THEN [threw |-> TRUE, error |-> NotRegisteredError(providerName), instance |-> NoInstance]
    ELSE [threw |-> FALSE, error |-> NoError,
          instance |-> Instance(nextInstance + 1, Lookup(providers, providerName))]

\* the three fields of the factory as one value
Registry == [providers |-> providers, providerClasses |-> providerClasses,
             defaultProvider |-> defaultProvider]

\* the fields as the constructor sets them before it registers the mock
EmptyRegistry == [providers |-> <<>>, providerClasses |-> <<>>, defaultProvider |-> NullName]

\* registerProvider that makes every registered name the default
RegisteredAlwaysDefault(reg, name, providerClass, factory) ==
    [providers |-> Assign(reg.providers, name, factory),
     providerClasses |-> Assign(reg.providerClasses, name, providerClass),
     defaultProvider |-> name]

\* the fields after registerProvider(name, providerClass, factory)
Registered(reg, name, providerClass, factory) ==
    [providers |-> Assign(reg.providers, name, factory),
     providerClasses |-> Assign(reg.providerClasses, name, providerClass),
     defaultProvider |-> IF NameFalsy(reg.defaultProvider) THEN name
                         ELSE reg.defaultProvider]

\* API key of a live backend in process.env: not set, malformed, well-formed
KeyStates == {"unset", "invalid", "ok"}

\* no registry call made yet
NoOp == [op |-> "none", name |-> NullName, class |-> NoFactory, factory |-> NoFactory,
         env |-> "unset", threw |-> FALSE, error |-> NoError, value |-> "",
         before |-> EmptyRegistry]

\* the live backends of llm/index.js
Backends == {"openai", "claude"}
BackendClass(b) == IF b = "openai" THEN "OpenAILLM" ELSE "AnthropicLLM"

\* what a backend finds installed: everything; its provider module but not the
\* SDK package the provider loads in its constructor; not even its module
DependencyStates == {"ok", "sdkMissing", "moduleMissing"}
AllInstalled == [b \in Backends |-> "ok"]

\* registerAllProviders not called yet
NoRegisterAll == [pc |-> "idle", results |-> [b \in Backends |-> FALSE], added |-> {}]

\* the constructor and the registration repeated by llm/index.js
RegistryInit ==
    /\ providers = Registered(EmptyRegistry, "mock", "MockLLM", "MockLLM").providers
    /\ providerClasses = Registered(EmptyRegistry, "mock", "MockLLM", "MockLLM").providerClasses
    /\ defaultProvider = Registered(EmptyRegistry, "mock", "MockLLM", "MockLLM").defaultProvider
    /\ lastOp = NoOp
    /\ environment = AllInstalled
    /\ registerAll = NoRegisterAll
    /\ nextInstance = 0
    /\ lastCreate = [name |-> NullName, registered |-> FALSE, threw |-> FALSE,
                     error |-> NoError, instance |-> NoInstance, default |-> "mock"]

RegisterNames == {"mock", "openai", "claude"}

\* the registrations of llm/index.js, and one that overwrites a registered name
Registrations == {<<"mock", "MockLLM", "MockLLM">>, <<"openai", "OpenAILLM", "OpenAILLM">>,
                  <<"claude", "AnthropicLLM", "AnthropicLLM">>,
                  <<"mock", "OpenAILLM", "AnthropicLLM">>}
CreateNames == RegisterNames \cup {"nonexistent", "", "constructor", NullName}

registerProvider(name, providerClass, factory) ==
    /\ providers' = Registered(Registry, name, providerClass, factory).providers
    /\ providerClasses' = Registered(Registry, name, providerClass, factory).providerClasses
    /\ defaultProvider' = Registered(Registry, name, providerClass, factory).defaultProvider
    /\ lastOp' = [NoOp EXCEPT !.op = "registerProvider", !.name = name,
                              !.class = providerClass, !.factory = factory,
                              !.before = Registry]
    /\ UNCHANGED <<nextInstance, lastCreate, environment, registerAll>>

setDefaultProvider(name) ==
    LET missing == Lookup(providers, name) = NoFactory IN
    /\ defaultProvider' = IF missing THEN defaultProvider ELSE name
    /\ lastOp' = [NoOp EXCEPT !.op = "setDefaultProvider", !.name = name,
                              !.threw = missing,
                              !.error = IF missing THEN NotRegisteredError(name) ELSE NoError,
                              !.before = Registry]
    /\ UNCHANGED <<providers, providerClasses, nextInstance, lastCreate, environment, registerAll>>

\* the static checkAPIKey of a provider class
StaticCheckAPIKey(class, env) ==
    IF class = "MockLLM" THEN "No API key required for mock LLM provider"
    ELSE IF class = "OpenAILLM"
    THEN (IF env = "unset" THEN "OPENAI_API_KEY environment variable is not set"
          ELSE IF env = "invalid" THEN "OPENAI_API_KEY has invalid format"
          ELSE "OpenAI API key is properly configured")
    ELSE (IF env = "unset" THEN "ANTHROPIC_API_KEY environment variable is not set"
          ELSE IF env = "invalid" THEN "ANTHROPIC_API_KEY has invalid format"
          ELSE "Anthropic API key is properly configured")

\* the static getProviderName of a provider class
StaticGetProviderName(class) ==
    IF class = "MockLLM" THEN "Mock"
    ELSE IF class = "OpenAILLM" THEN "OpenAI"
    ELSE "Claude"

\* llmFactory.checkAPIKey(name), with the API key of the backend in state env
checkAPIKey(name, env) ==
    LET providerClass == Lookup(providerClasses, name) IN
    /\ lastOp' = [NoOp EXCEPT
          !.op = "checkAPIKey", !.name = name, !.env = env, !.before = Registry,
          !.threw = providerClass \notin Classes,
          !.error = IF providerClass = NoFactory THEN NotRegisteredError(name)
                    ELSE IF providerClass \notin Classes THEN TypeError
                    ELSE NoError,
          !.value = IF providerClass \in Classes THEN StaticCheckAPIKey(providerClass, env)
                    ELSE ""]
    /\ UNCHANGED <<providers, providerClasses, defaultProvider, nextInstance, lastCreate, environment, registerAll>>

\* llmFactory.getProviderName(name)
getProviderName(name) ==
    LET providerClass == Lookup(providerClasses, name) IN
    /\ lastOp' = [NoOp EXCEPT
          !.op = "getProviderName", !.name = name, !.before = Registry,
          !.threw = providerClass = InheritedFactory,
          !.error = IF providerClass = InheritedFactory THEN TypeError ELSE NoError,
          !.value = IF providerClass = NoFactory THEN name
                    ELSE IF providerClass \in Classes THEN StaticGetProviderName(providerClass)
                    ELSE ""]
    /\ UNCHANGED <<providers, providerClasses, defaultProvider, nextInstance, lastCreate, environment, registerAll>>

\* configureDocumentProcessor({llmProvider: name}) of document-processor.js
configureDocumentProcessor(name) ==
    LET switch == ~NameFalsy(name) /\ Lookup(providers, name) # NoFactory IN
    /\ defaultProvider' = IF switch THEN name ELSE defaultProvider
    /\ lastOp' = [NoOp EXCEPT !.op = "configureDocumentProcessor", !.name = name,
                              !.value = "success", !.before = Registry]
    /\ UNCHANGED <<providers, providerClasses, nextInstance, lastCreate, environment,
                   registerAll>>

\* registerAllProviders is called: registerOpenAI runs up to its await import
registerAllProviders ==
    /\ registerAll.pc = "idle"
    /\ registerAll' = [registerAll EXCEPT !.pc = "openai"]
    /\ UNCHANGED <<providers, providerClasses, defaultProvider, nextInstance, lastCreate,
                   lastOp, environment>>

\* registerOpenAI / registerAnthropic once the import of backend b settled: the
\* provider is registered if its module loaded, false is returned if it did not
importSettles(b) ==
    LET loaded == environment[b] # "moduleMissing"
        reg == IF loaded THEN Registered(Registry, b, BackendClass(b), BackendClass(b))
               ELSE Registry IN
    /\ registerAll.pc = b
    /\ providers' = reg.providers
    /\ providerClasses' = reg.providerClasses
    /\ defaultProvider' = reg.defaultProvider
    /\ registerAll' = [pc |-> IF b = "openai" THEN "claude" ELSE "done",
                       results |-> [registerAll.results EXCEPT ![b] = loaded],
                       added |-> IF loaded THEN registerAll.added \cup {b}
                                 ELSE registerAll.added]
    /\ UNCHANGED <<nextInstance, lastCreate, lastOp, environment>>

\* CreateEffect that also makes the provider it created the default
CreateEffectSetsDefault(name) ==
    LET r == create(name) IN
    /\ lastCreate' = [name |-> name, registered |-> name \in DOMAIN providers,
                      threw |-> r.threw, error |-> r.error, instance |-> r.instance,
                      default |-> defaultProvider]
    /\ nextInstance' = IF r.threw THEN nextInstance ELSE nextInstance + 1
    /\ defaultProvider' = IF r.threw \/ NameFalsy(name) THEN defaultProvider ELSE name
    /\ UNCHANGED <<providers, providerClasses, lastOp, environment, registerAll>>

\* the effect of one llmFactory.create(name) call on the registry
CreateEffect(name) ==
    LET r == create(name) IN
    /\ lastCreate' = [name |-> name, registered |-> name \in DOMAIN providers,
                      threw |-> r.threw, error |-> r.error, instance |-> r.instance,
                      default |-> defaultProvider]
    /\ nextInstance' = IF r.threw THEN nextInstance ELSE nextInstance + 1
    /\ UNCHANGED <<providers, providerClasses, defaultProvider, lastOp, environment, registerAll>>

\* a call of llmFactory.create(name) from outside the orchestrator
createCall(name) ==
    /\ nextInstance < MaxInstances
    /\ CreateEffect(name)

(***************************************************************************)
(* Inputs of the model: records, parsed values and raw texts.              *)
(***************************************************************************)
Obj2(k1, v1, k2, v2) == JObj(<< <<k1, v1>>, <<k2, v2>> >>)
Obj1(k1, v1) == JObj(<< <<k1, v1>> >>)

RecXY == Obj2("first_name", JStr("X"), "last_name", JStr("Y"))
RecEmptyFirst == Obj2("first_name", JStr(""), "last_name", JStr("Y"))
RecNoLast == Obj1("first_name", JStr("X"))
RecBadGender == JObj(<< <<"first_name", JStr("X")>>, <<"last_name", JStr("Y")>>,
                        <<"gender", JStr("Other")>> >>)

\* elements of the record sequences: three records and one value that is no object
SeqElements == {RecXY, RecEmptyFirst, RecNoLast, JStr("X")}

SeqsUpTo(S, n) == UNION {[1..k -> S] : k \in 0..n}
RecordSeqs == SeqsUpTo(SeqElements, MaxSeqLen)

WrapperKeys == {"persons", "people", "data"}
Wrap(k, v) == Obj1(k, v)

Primitives == {JNull, JStr(""), JStr("X"), JNum(0), JNum(1), JBool(FALSE), JBool(TRUE)}

\* the built-in sample person of MockLLM.generateResponse
MockPerson == JObj(<<
    <<"first_name", JStr("John")>>, <<"middle_names", JStr("William")>>,
    <<"last_name", JStr("Smith")>>, <<"gender", JStr("Male")>>,
    <<"birth_date", JStr("1850-03-15")>>, <<"birth_place", JStr("London, England")>>,
    <<"death_date", JStr("1920-11-23")>>, <<"death_place", JStr("Adelaide, Australia")>>,
    <<"age_at_death", JStr("70 years")>>, <<"burial_place", JStr("Adelaide Cemetery")>> >>)

\* values a structured call can resolve to
ParsedValues ==
    {JArr(q) : q \in RecordSeqs}
    \cup {Wrap(k, JArr(q)) : k \in WrapperKeys, q \in RecordSeqs}
    \cup {RecXY, RecEmptyFirst, RecNoLast, RecBadGender, MockPerson, JArr(<<MockPerson>>)}
    \cup {Obj2("persons", JStr("X"), "people", JArr(<<RecXY>>)),
          Obj2("data", JArr(<<RecNoLast>>), "persons", JArr(<<RecXY>>)),
          Obj2("data", JArr(<<RecNoLast>>), "people", JArr(<<RecXY>>)),
          Wrap("persons", RecXY)}
    \cup Primitives

Sorry == <<Word("Sorry,"), Space, Word("I"), Space, Word("cannot"), Space, Word("help"),
           Space, Word("with"), Space, Word("that.")>>

RawPrefixLen == 100   \* textResponse.substring(0, 100)

\* a refusal longer than the prefix the orchestrator quotes
LongProse == [i \in 1..(RawPrefixLen + 1) |-> Word("no")]

\* the ways a backend decorates the JSON text it returns
Decorations(body) ==
    { body,
      <<Fence, Word("json"), Newline>> \o body \o <<Newline, Fence>>,
      <<Fence, Newline>> \o body \o <<Newline, Fence>>,
      <<Fence, Word("json"), Newline>> \o body,
      <<Word("Here"), Space>> \o body,
      body \o <<Newline, Word("Done.")>>,
      <<Space>> \o body \o <<Newline>>,
      SubSeq(body, 1, Len(body) - 1) }

\* texts a free-text call can resolve to
RawTexts ==
    {JSONstringify(v) : v \in ParsedValues}
    \cup UNION {Decorations(JSONstringify(v)) :
                    v \in {RecXY, JArr(<<RecXY, RecNoLast>>), Wrap("persons", JArr(<<RecXY>>))}}
    \cup {<<>>, Sorry, LongProse, <<Fence, Space, Fence>>}

RecAB == Obj2("first_name", JStr("A"), "last_name", JStr("B"))

\* values a backend may put inside a fenced block
FencedValues == {RecAB, JArr(<<RecXY, RecNoLast>>), Wrap("persons", JArr(<<RecAB>>)),
                 JArr(<<>>), JNum(1), JStr("X")}

\* a response whose first fenced block holds body: with or without the json
\* tag, with prose before it, with prose or a second block after it
FencedForms(body) ==
    {pre \o <<Fence>> \o tag \o <<Newline>> \o body \o <<Newline, Fence>> \o post :
        pre \in {<<>>, <<Word("Here"), Space, Word("you"), Space, Word("go:"), Newline>>},
        tag \in {<<>>, <<Word("json")>>},
        post \in {<<>>, <<Newline, Word("Done.")>>,
                  <<Newline, Fence, Newline>> \o JSONstringify(RecNoLast) \o <<Newline, Fence>>}}

FencedTexts == UNION {FencedForms(JSONstringify(v)) : v \in FencedValues}

(***************************************************************************)
(* src/prompts/person-extraction-prompt.js and String.prototype.replace    *)
(***************************************************************************)
Placeholder == Word("[DOCUMENT_TEXT]")

\* the template: the text before the placeholder, the placeholder, the text after
PERSON_EXTRACTION_PROMPT == <<Word("TASK"), Placeholder, Word("JSON:")>>

\* the two-character sequences String.prototype.replace reads as patterns in a
\* replacement string: "$$", "$&", "$" with a backtick, "$" with an apostrophe
DollarDollar == Word("$$")
DollarAmpersand == Word("$&")
DollarBefore == Word("$backtick")
DollarAfter == Word("$apostrophe")

\* the replacement string with its $-patterns expanded
RECURSIVE ExpandReplacement(_, _, _, _)
ExpandReplacement(repl, before, match, after) ==
    IF Len(repl) = 0 THEN <<>>
    ELSE (CASE repl[1] = DollarDollar -> <<Word("$")>>
            [] repl[1] = DollarAmpersand -> match
            [] repl[1] = DollarBefore -> before
            [] repl[1] = DollarAfter -> after
            [] OTHER -> <<repl[1]>>)
         \o ExpandReplacement(Tail(repl), before, match, after)

\* text.replace(pattern, replacement) with a string pattern: the first occurrence
Replace(text, pattern, repl) ==
    LET i == IndexOf(text, pattern) IN
    IF i = 0 THEN text
    ELSE LET before == SubSeq(text, 1, i - 1)
             after == From(text, i + 1) IN
         before \o ExpandReplacement(repl, before, <<pattern>>, after) \o after

BuildPrompt(documentText) == Replace(PERSON_EXTRACTION_PROMPT, Placeholder, documentText)

\* what a document text is made of: words, blanks, the character pairs that
\* String.prototype.replace reads as patterns, and the placeholder itself
DocLexemes == {Word("Smith"), Space, DollarDollar, DollarAmpersand, DollarBefore,
               DollarAfter, Word("$1"), Placeholder}
DocumentTexts == SeqsUpTo(DocLexemes, MaxDocLen)

(***************************************************************************)
(* Provider behaviour (llm-interface.js, mock-llm.js, openai-llm.js)       *)
(***************************************************************************)
IsProvider(llm) == llm.class \in Classes \cup {"Custom"}

\* MockLLM.generateResponse of an instance built with no options
MockResponse == JSONstringify(MockPerson)

\* texts generateResponse can resolve to
TextOutcomes(llm) == IF llm.class = "MockLLM" THEN {MockResponse} ELSE RawTexts

\* values generateJSON can resolve to: JSON.parse of a response
StructuredOutcomes(llm) ==
    IF llm.class = "MockLLM" THEN {JSONparse(MockResponse).v} ELSE ParsedValues

\* a live or caller-built backend can fail; the built-in mock cannot
CanThrow(llm) == llm.class # "MockLLM"

(***************************************************************************)
(* extractPersonFromDocument                                               *)
(***************************************************************************)
Absent == "<absent>"
OptionKeys == {"systemPrompt", "model", "temperature", "maxTokens", "responseFormat"}
NoOptions == [k \in OptionKeys |-> Absent]
OptFalsy(x) == x \in {Absent, ""}

StructuredPromptOpenAI == "JSON object with a persons array"
StructuredPromptDefault == "ALWAYS valid JSON only"
StructuredPromptLegacy == "Output valid JSON only"

\* the options of the structured call, part_008 lines 48-61
LlmOptions(options) ==
    IF options.provider = "openai"
    THEN [options.llmOptions EXCEPT
            !["systemPrompt"] = StructuredPromptOpenAI,
            !["model"] = IF OptFalsy(@) THEN "gpt-4-turbo" ELSE @,
            !["temperature"] = "0.2",
            !["responseFormat"] = "json_object"]
    ELSE [options.llmOptions EXCEPT !["systemPrompt"] = StructuredPromptDefault]

\* the options of the structured call, person-extractor.js lines 46-50
LegacyLlmOptions(options) ==
    [k \in OptionKeys |->
        IF options.llmOptions[k] # Absent THEN options.llmOptions[k]
        ELSE IF k = "systemPrompt" THEN StructuredPromptLegacy
        ELSE IF k = "responseFormat" THEN "json"
        ELSE Absent]

ErrorPrefix(im) == IF im = "persons" THEN "Error extracting persons data: "
                   ELSE "Error extracting person data: "

\* a result object: keys are its own properties; a property that is not among
\* them reads as the default kept in its field
NoResult == [keys |-> {}, success |-> FALSE, data |-> JNull, errors |-> <<>>,
             error |-> [prefix |-> "", cause |-> NoError], rawResponse |-> <<>>]

\* { success: false, error: `Error extracting persons data: ${error.message}` }
ErrorResult(im, cause) ==
    [keys |-> {"success", "error"}, success |-> FALSE, data |-> JNull, errors |-> <<>>,
     error |-> [prefix |-> ErrorPrefix(im), cause |-> cause], rawResponse |-> <<>>]

\* { success: false, errors: validationResult.errors, data: partialData }
InvalidResult(errors, data) ==
    [keys |-> {"success", "errors", "data"}, success |-> FALSE, data |-> data,
     errors |-> errors, error |-> [prefix |-> "", cause |-> NoError], rawResponse |-> <<>>]

\* { success: true, data: finalData }
SuccessResult(data) ==
    [keys |-> {"success", "data"}, success |-> TRUE, data |-> data, errors |-> <<>>,
     error |-> [prefix |-> "", cause |-> NoError], rawResponse |-> <<>>]

\* index of the first element the single-record schema rejects, 0 when none
FirstInvalid(a) ==
    LET bad == {i \in 1..Len(a) : ~validatePerson(a[i]).valid} IN
    IF bad = {} THEN 0 ELSE CHOOSE i \in bad : \A j \in bad : i <= j

\* part_008 lines 85-110: the collection schema, then each element in turn
\* until the first invalid one
ValidationOf(personsData) ==
    IF ~IsArray(personsData) THEN validatePerson(personsData)
    ELSE LET whole == validatePersons(personsData) IN
         IF ~whole.valid \/ FirstInvalid(personsData.a) = 0 THEN whole
         ELSE validatePerson(personsData.a[FirstInvalid(personsData.a)])

\* ValidatedResult returning only the conforming records as partial data
ValidatedResultDropsInvalid(personsData) ==
    LET validationResult == ValidationOf(personsData)
        asArray == IF IsArray(personsData) THEN personsData ELSE JArr(<<personsData>>) IN
    IF ~validationResult.valid
    THEN InvalidResult(validationResult.errors,
                       JArr(SelectSeq(asArray.a, LAMBDA r : validatePerson(r).valid)))
    ELSE SuccessResult(asArray)

\* part_008 lines 112-129
ValidatedResult(personsData) ==
    LET validationResult == ValidationOf(personsData)
        asArray == IF IsArray(personsData) THEN personsData ELSE JArr(<<personsData>>) IN
    IF ~validationResult.valid THEN InvalidResult(validationResult.errors, asArray)
    ELSE SuccessResult(asArray)

\* person-extractor.js lines 58-75
LegacyValidatedResult(personData) ==
    LET validationResult == validatePerson(personData) IN
    IF ~validationResult.valid THEN InvalidResult(validationResult.errors, personData)
    ELSE SuccessResult(personData)

\* new Error(`Could not extract valid JSON from the response. Raw response: ...`)
CouldNotExtractError(textResponse) ==
    [kind |-> "CouldNotExtract", name |-> "",
     raw |-> SubSeq(textResponse, 1, Min(RawPrefixLen, Len(textResponse)))]

\* part_008 lines 72-81 after the free-text call resolved
FallbackResult(textResponse) ==
    LET extractedJson == extractJsonFromText(textResponse) IN
    IF Falsy(extractedJson) THEN ErrorResult("persons", CouldNotExtractError(textResponse))
    ELSE ValidatedResult(normalizePersonsData(extractedJson))

\* person-extractor.js lines 55-56 after the free-text call resolved
LegacyFallbackResult(textResponse) ==
    LET parsed == JSONparse(textResponse) IN
    IF ~parsed.ok THEN ErrorResult("person", SyntaxError)
    ELSE LegacyValidatedResult(parsed.v)

Documents == {<<>>, <<Word("Smith")>>}
ProviderOptions == {Absent, "mock", "openai", "nonexistent", "constructor"}
CallerLlmOptions ==
    {NoOptions,
     [NoOptions EXCEPT !["systemPrompt"] = "caller prompt", !["model"] = "gpt-4o",
                       !["temperature"] = "0.7", !["maxTokens"] = "512"]}
\* a provider instance the caller built itself
CallerInstance == Instance(0, "Custom")
\* with an instance supplied the provider name only selects the options overlay
Options == {o \in [provider : ProviderOptions, llm : {NoInstance, CallerInstance},
                   llmOptions : CallerLlmOptions] :
               o.llm = CallerInstance => o.provider \in {Absent, "openai"}}
Impls == {"persons", "person"}   \* part_008 and person-extractor.js

NoCall == [documentText |-> <<>>, options |-> [provider |-> Absent, llm |-> NoInstance,
                                               llmOptions |-> NoOptions],
           prompt |-> <<>>, llm |-> NoInstance, llmOptions |-> NoOptions,
           structuredCalls |-> 0, structuredPrompt |-> <<>>, structuredThrew |-> FALSE,
           textCalls |-> 0, textPrompt |-> <<>>, textOptions |-> NoOptions,
           textReturned |-> FALSE, textResponse |-> <<>>,
           validated |-> FALSE, normalized |-> JNull]

CallInit == pc = "idle" /\ impl = "persons" /\ call = NoCall /\ result = NoResult

\* lines 25-65: build the prompt, resolve the provider, issue the structured call
extractPersonFromDocument(im, documentText, options) ==
    LET prompt == BuildPrompt(documentText)
        supplied == options.llm # NoInstance
        name == IF OptFalsy(options.provider) THEN NullName ELSE options.provider
        resolved == create(name)
        llm == IF supplied THEN options.llm ELSE resolved.instance
        started == [NoCall EXCEPT !.documentText = documentText, !.options = options,
                                  !.prompt = prompt]
    IN
    /\ pc = "idle"
    /\ supplied \/ nextInstance < MaxInstances
    /\ impl' = im
    /\ IF supplied THEN UNCHANGED registryVars ELSE CreateEffect(name)
    /\ IF ~supplied /\ resolved.threw
       THEN /\ pc' = "done"
            /\ call' = started
            /\ result' = ErrorResult(im, resolved.error)
       ELSE IF ~IsProvider(llm)
       THEN /\ pc' = "done"
            /\ call' = [started EXCEPT !.llm = llm]
            /\ result' = ErrorResult(im, TypeError)
       ELSE /\ pc' = "awaitJSON"
            /\ call' = [started EXCEPT
                          !.llm = llm,
                          !.llmOptions = IF im = "persons" THEN LlmOptions(options)
                                         ELSE LegacyLlmOptions(options),
                          !.structuredCalls = 1,
                          !.structuredPrompt = prompt]
            /\ result' = NoResult
    /\ UNCHANGED <<pureVars, otherVars>>

\* llm.generateJSON resolved: normalise, validate, return
structuredResolves(v) ==
    /\ pc = "awaitJSON"
    /\ v \in StructuredOutcomes(call.llm)
    /\ pc' = "done"
    /\ LET personsData == IF impl = "persons" THEN normalizePersonsData(v) ELSE v IN
       /\ call' = [call EXCEPT !.validated = TRUE, !.normalized = personsData]
       /\ result' = IF impl = "persons" THEN ValidatedResult(personsData)
                    ELSE LegacyValidatedResult(personsData)
    /\ UNCHANGED <<impl, registryVars, pureVars, otherVars>>

\* llm.generateJSON rejected: the catch block issues the free-text call
structuredRejects ==
    /\ pc = "awaitJSON"
    /\ CanThrow(call.llm)
    /\ pc' = "awaitText"
    /\ call' = [call EXCEPT !.structuredThrew = TRUE,
                            !.textCalls = @ + 1,
                            !.textPrompt = call.prompt,
                            !.textOptions = IF impl = "persons" THEN call.llmOptions
                                            ELSE call.options.llmOptions]
    /\ UNCHANGED <<impl, result, registryVars, pureVars, otherVars>>

\* llm.generateResponse resolved: extract, normalise, validate, return
textResolves(textResponse) ==
    /\ pc = "awaitText"
    /\ textResponse \in TextOutcomes(call.llm)
    /\ pc' = "done"
    /\ LET parsed == IF impl = "persons"
                     THEN [ok |-> ~Falsy(extractJsonFromText(textResponse)),
                           v |-> normalizePersonsData(extractJsonFromText(textResponse))]
                     ELSE JSONparse(textResponse) IN
       /\ call' = [call EXCEPT !.textReturned = TRUE, !.textResponse = textResponse,
                               !.validated = parsed.ok,
                               !.normalized = IF parsed.ok THEN parsed.v ELSE JNull]
       /\ result' = IF impl = "persons" THEN FallbackResult(textResponse)
                    ELSE LegacyFallbackResult(textResponse)
    /\ UNCHANGED <<impl, registryVars, pureVars, otherVars>>

\* llm.generateJSON of a caller's provider rejected with null or undefined: the
\* read of jsonError.message in the catch block throws a TypeError, no
\* free-text call is issued and the outer catch returns the failure
structuredRejectsWithoutError ==
    /\ pc = "awaitJSON"
    /\ call.llm.class = "Custom"
    /\ pc' = "done"
    /\ call' = [call EXCEPT !.structuredThrew = TRUE]
    /\ result' = ErrorResult(impl, TypeError)
    /\ UNCHANGED <<impl, registryVars, pureVars, otherVars>>

\* llm.generateResponse of a caller's provider rejected with null or undefined:
\* the read of error.message in the outer catch throws, so the promise of
\* extractPersonFromDocument is rejected
textRejectsWithoutError ==
    /\ pc = "awaitText"
    /\ call.llm.class = "Custom"
    /\ pc' = "rejected"
    /\ UNCHANGED <<impl, call, result, registryVars, pureVars, otherVars>>

\* textRejects that issues the free-text call a second time
textRejectsRetries ==
    /\ pc = "awaitText"
    /\ CanThrow(call.llm)
    /\ pc' = IF call.textCalls < 2 THEN "awaitText" ELSE "done"
    /\ call' = [call EXCEPT !.textCalls = IF @ < 2 THEN @ + 1 ELSE @]
    /\ result' = IF call.textCalls < 2 THEN result ELSE ErrorResult(impl, ProviderError)
    /\ UNCHANGED <<impl, registryVars, pureVars, otherVars>>

\* llm.generateResponse rejected: the outer catch returns the failure
textRejects ==
    /\ pc = "awaitText"
    /\ CanThrow(call.llm)
    /\ pc' = "done"
    /\ result' = ErrorResult(impl, ProviderError)
    /\ UNCHANGED <<impl, call, registryVars, pureVars, otherVars>>

(***************************************************************************)
(* MockLLM of llm/mock-llm.js.  Texts are sequences of lexemes; the         *)
(* mockResponses object of an instance is a reference into heap, because    *)
(* the constructor keeps the object its caller passed.                      *)
(***************************************************************************)
UndefinedText == <<Lit("undefined")>>   \* no value: an option not passed, a missing property
NullText == <<Lit("null")>>
\* Object.prototype.constructor, the value a plain object has under "constructor"
ObjectFunction == <<Word("function Object()")>>
TextFalsy(t) == t \in {<<>>, UndefinedText, NullText}

MockPrompt == BuildPrompt(<<Word("Smith")>>)
InheritedPrompts == {<<Word(k)>> : k \in ObjectPrototypeKeys}
MockPrompts == {MockPrompt} \cup InheritedPrompts

\* an object without own properties
EmptyObject == [prompt \in {} |-> <<>>]
\* mockResponses objects a caller builds: none canned, a text canned for the
\* prompt, the empty text canned for the prompt
CallerObjects == {EmptyObject, [prompt \in {MockPrompt} |-> <<Word("R1")>>],
                  [prompt \in {MockPrompt} |-> <<>>]}

\* this.mockResponses[prompt] on a plain object
CannedFor(mockResponses, prompt) ==
    IF prompt \in DOMAIN mockResponses THEN mockResponses[prompt]
    ELSE IF prompt \in InheritedPrompts THEN ObjectFunction
    ELSE UndefinedText

NoRef == 0
MockOption(mockResponses, defaultResponse, recordMode, recordDir) ==
    [mockResponses |-> mockResponses, defaultResponse |-> defaultResponse,
     recordMode |-> recordMode, recordDir |-> recordDir]
\* the options objects passed to llmFactory.create('mock', options); reference 1
\* is the mockResponses object the caller built
MockOptions ==
    {MockOption(NoRef, UndefinedText, FALSE, UndefinedText),
     MockOption(1, UndefinedText, FALSE, UndefinedText),
     MockOption(1, <<Word("D")>>, FALSE, UndefinedText),
     MockOption(NoRef, <<Word("D")>>, FALSE, UndefinedText),
     MockOption(NoRef, <<>>, FALSE, UndefinedText),
     MockOption(NoRef, UndefinedText, TRUE, <<Word("dir")>>),
     MockOption(NoRef, UndefinedText, TRUE, UndefinedText)}

\* new MockLLM(options), with fresh the reference of the {} of line 12
MockLLM(id, options, fresh) ==
    [id |-> id,
     mockResponses |-> IF options.mockResponses = NoRef THEN fresh ELSE options.mockResponses,
     defaultResponse |-> IF TextFalsy(options.defaultResponse) THEN NullText
                         ELSE options.defaultResponse,
     recordMode |-> options.recordMode,
     recordDir |-> IF TextFalsy(options.recordDir) THEN NullText ELSE options.recordDir]

\* what a real backend passed as options.realLLM answers
RealOutcomes == {[threw |-> FALSE, text |-> <<Word("real")>>], [threw |-> TRUE, text |-> <<>>]}

NoMockOut == [instance |-> 0, prompt |-> <<>>, realLLM |-> FALSE, threw |-> FALSE,
              response |-> UndefinedText, recorded |-> FALSE,
              before |-> [heap |-> <<>>, instances |-> <<>>]]

MockInit ==
    /\ heap = <<[prompt \in {MockPrompt} |-> <<Word("R1")>>]>>
    /\ instances = <<>>
    /\ mockOut = NoMockOut

\* llmFactory.create('mock', options): the registered factory runs the constructor
createMock(options) ==
    /\ nextInstance < MaxInstances
    /\ ~create("mock").threw
    /\ create("mock").instance.class = "MockLLM"
    /\ CreateEffect("mock")
    /\ heap' = IF options.mockResponses = NoRef THEN Append(heap, EmptyObject) ELSE heap
    /\ instances' = Append(instances,
                           MockLLM(create("mock").instance.id, options, Len(heap) + 1))
    /\ UNCHANGED <<mockOut, callVars, pureVars, parked, processVars>>

\* instances[i].generateResponse(prompt, {realLLM}), where the real backend, if
\* one is passed and asked, answers with outcome
generateResponse(i, prompt, realLLM, outcome) ==
    LET self == instances[i]
        canned == CannedFor(heap[self.mockResponses], prompt)
        records == self.recordMode /\ realLLM /\ ~TextFalsy(self.recordDir)
        asked == TextFalsy(canned) /\ records
    IN
    /\ i \in DOMAIN instances
    /\ outcome \in IF asked THEN RealOutcomes ELSE {[threw |-> FALSE, text |-> <<>>]}
    /\ mockOut' = [instance |-> i, prompt |-> prompt, realLLM |-> realLLM,
                   threw |-> outcome.threw,
                   response |-> IF ~TextFalsy(canned) THEN canned
                                ELSE IF asked THEN outcome.text
                                ELSE IF ~TextFalsy(self.defaultResponse)
                                THEN self.defaultResponse
                                ELSE MockResponse,
                   recorded |-> asked /\ ~outcome.threw,
                   before |-> [heap |-> heap, instances |-> instances]]
    /\ UNCHANGED <<heap, instances, registryVars, callVars, pureVars, parked, processVars>>

\* instances[i].loadMockResponses(directory), the directory holding one file
\* with this prompt and this response
loadMockResponses(i, prompt, response) ==
    /\ i \in DOMAIN instances
    /\ heap' = [heap EXCEPT ![instances[i].mockResponses] = Assign(@, prompt, response)]
    /\ UNCHANGED <<instances, mockOut, registryVars, callVars, pureVars, parked, processVars>>

(***************************************************************************)
(* document-processor.js: processWordDocument and the initialization it     *)
(* runs while providersInitialized is false.                                *)
(***************************************************************************)
Calls == {1, 2}   \* two processWordDocument calls that may overlap

NoProc == [pc |-> "idle", provider |-> Absent, configured |-> NullName,
           ranRegisterAll |-> FALSE, resetDefault |-> FALSE,
           llm |-> NoInstance, settled |-> FALSE, success |-> FALSE]

ProcessInit ==
    /\ providersInitialized = FALSE
    /\ DEFAULT_LLM_PROVIDER = NullName
    /\ proc = [i \in Calls |-> NoProc]

\* the provider the last configureDocumentProcessor call made the default, when
\* that call followed a finished registerAllProviders() and nothing came after
ConfiguredProvider ==
    IF /\ registerAll.pc = "done"
       /\ lastOp.op = "configureDocumentProcessor"
       /\ lastOp.name \in DOMAIN providers
       /\ defaultProvider = lastOp.name
    THEN lastOp.name ELSE NullName

\* processWordDocument(filePath, {provider}) up to its first await: with the flag
\* false it enters initializeLLMProviders, registerAllProviders and registerOpenAI,
\* which awaits its import; with the flag true it awaits mammoth
processWordDocument(i, provider) ==
    /\ proc[i].pc = "idle"
    /\ proc' = [proc EXCEPT ![i] =
                  [@ EXCEPT !.pc = IF providersInitialized THEN "mammoth" ELSE "openai",
                            !.provider = provider,
                            !.configured = ConfiguredProvider,
                            !.ranRegisterAll = ~providersInitialized]]
    /\ UNCHANGED <<providersInitialized, DEFAULT_LLM_PROVIDER, registryVars, callVars,
                   pureVars, parked, mockVars>>

\* the import of backend b awaited by call i settled.  After the second one
\* registerAllProviders returns, initializeLLMProviders sets the flag and makes
\* process.env.DEFAULT_LLM_PROVIDER || 'mock' the default if it is registered,
\* and processWordDocument goes on to await mammoth
procImportSettles(i, b) ==
    LET loaded == environment[b] # "moduleMissing"
        reg == IF loaded THEN Registered(Registry, b, BackendClass(b), BackendClass(b))
               ELSE Registry
        wanted == IF NameFalsy(DEFAULT_LLM_PROVIDER) THEN "mock" ELSE DEFAULT_LLM_PROVIDER
        resets == b = "claude" /\ wanted \in DOMAIN reg.providers
    IN
    /\ proc[i].pc = b
    /\ providers' = reg.providers
    /\ providerClasses' = reg.providerClasses
    /\ defaultProvider' = IF resets THEN wanted ELSE reg.defaultProvider
    /\ providersInitialized' = (providersInitialized \/ b = "claude")
    /\ proc' = [proc EXCEPT ![i] =
                  [@ EXCEPT !.pc = IF b = "openai" THEN "claude" ELSE "mammoth",
                            !.resetDefault = resets]]
    /\ UNCHANGED <<nextInstance, lastCreate, lastOp, environment, registerAll,
                   DEFAULT_LLM_PROVIDER, callVars, pureVars, parked, mockVars>>

\* mammoth.extractRawText resolved: extractPersonFromDocument of
\* person-extractor.js is called and resolves its provider; a failure there is
\* returned as the result, otherwise the call awaits the structured call
mammothResolves(i) ==
    LET name == IF OptFalsy(proc[i].provider) THEN NullName ELSE proc[i].provider IN
    /\ proc[i].pc = "mammoth"
    /\ nextInstance < MaxInstances
    /\ CreateEffect(name)
    /\ proc' = [proc EXCEPT ![i] =
                  [@ EXCEPT !.pc = IF create(name).threw THEN "done" ELSE "extracting",
                            !.llm = create(name).instance,
                            !.settled = create(name).threw]]
    /\ UNCHANGED <<providersInitialized, DEFAULT_LLM_PROVIDER, callVars, pureVars, parked,
                   mockVars>>

\* mammoth.extractRawText rejected: the catch of processWordDocument returns
\* { success: false, error }
mammothRejects(i) ==
    /\ proc[i].pc = "mammoth"
    /\ proc' = [proc EXCEPT ![i] = [@ EXCEPT !.pc = "done", !.settled = TRUE]]
    /\ UNCHANGED <<providersInitialized, DEFAULT_LLM_PROVIDER, registryVars, callVars,
                   pureVars, parked, mockVars>>

\* the extraction of call i settled with a result, which processWordDocument
\* returns; its steps are those of the orchestrator and touch neither the
\* registry nor the flag
extractionSettles(i, success) ==
    /\ proc[i].pc = "extracting"
    /\ proc' = [proc EXCEPT ![i] = [@ EXCEPT !.pc = "done", !.settled = TRUE,
                                              !.success = success]]
    /\ UNCHANGED <<providersInitialized, DEFAULT_LLM_PROVIDER, registryVars, callVars,
                   pureVars, parked, mockVars>>

\* no second call yet
ParkedInit == parked = [pc |-> "idle", impl |-> "persons", call |-> NoCall, result |-> NoResult]

\* two calls in flight: at an await of the running call the event loop resumes
\* the other one, whose locals are its own
otherCallRuns ==
    /\ pc' = parked.pc
    /\ impl' = parked.impl
    /\ call' = parked.call
    /\ result' = parked.result
    /\ parked' = [pc |-> pc, impl |-> impl, call |-> call, result |-> result]
    /\ UNCHANGED <<registryVars, pureVars, mockVars, processVars>>

(***************************************************************************)
(* Applications of the pure functions                                      *)
(***************************************************************************)
\* nothing normalized or validated yet
NoNormOut == [once |-> JNull, twice |-> JNull, persons |-> JNull,
              people |-> JNull, data |-> JNull, main |-> {JNull}]
NoValOut == [valid |-> FALSE, errors |-> <<>>]
NoTextOut == [json |-> JNull, persons |-> JNull]
PureInit ==
    /\ normIn = JNull /\ normOut = NoNormOut
    /\ valIn = JNull /\ valOut = NoValOut
    /\ textIn = <<>> /\ textOut = NoTextOut
    /\ docIn = <<>> /\ promptOut = <<>>

\* part_003 lines 94-107: the same shape normalisation, written inline in main
mainPersonsArray(parsedData) ==
    IF IsArray(parsedData) THEN parsedData
    ELSE IF IsArray(Get(parsedData, "persons")) THEN Get(parsedData, "persons")
    ELSE IF IsArray(Get(parsedData, "data")) THEN Get(parsedData, "data")
    ELSE IF IsArray(Get(parsedData, "people")) THEN Get(parsedData, "people")
    ELSE JArr(<<parsedData>>)

normalize(data) ==
    /\ normIn' = data
    /\ normOut' = [once |-> normalizePersonsData(data),
                   twice |-> normalizePersonsData(normalizePersonsData(data)),
                   persons |-> normalizePersonsData(Wrap("persons", data)),
                   people |-> normalizePersonsData(Wrap("people", data)),
                   data |-> normalizePersonsData(Wrap("data", data)),
                   main |-> {mainPersonsArray(data)}
                            \cup {mainPersonsArray(Wrap(k, data)) : k \in WrapperKeys}]
    /\ UNCHANGED <<valIn, valOut, textIn, textOut, docIn, promptOut, registryVars, callVars, otherVars>>

validate(instance) ==
    /\ valIn' = instance
    /\ valOut' = validatePerson(instance)
    /\ UNCHANGED <<normIn, normOut, textIn, textOut, docIn, promptOut, registryVars, callVars, otherVars>>

\* part_008 lines 75-81: the raw text extracted, then normalized
extractJson(text) ==
    /\ textIn' = text
    /\ textOut' = [json |-> extractJsonFromText(text),
                   persons |-> normalizePersonsData(extractJsonFromText(text))]
    /\ UNCHANGED <<normIn, normOut, valIn, valOut, docIn, promptOut, registryVars, callVars, otherVars>>

\* part_008 line 28: the prompt built for a document text
buildPrompt(documentText) ==
    /\ docIn' = documentText
    /\ promptOut' = BuildPrompt(documentText)
    /\ UNCHANGED <<normIn, normOut, valIn, valOut, textIn, textOut, registryVars, callVars, otherVars>>

(***************************************************************************)
(* Specifications                                                          *)
(***************************************************************************)
Init == RegistryInit /\ CallInit /\ PureInit /\ ParkedInit /\ MockInit /\ ProcessInit

\* the registry under any sequence of calls of its operations
Next ==
    \/ \E r \in Registrations :
          registerProvider(r[1], r[2], r[3]) /\ UNCHANGED <<callVars, pureVars, otherVars>>
    \/ \E name \in CreateNames : setDefaultProvider(name) /\ UNCHANGED <<callVars, pureVars, otherVars>>
    \/ \E name \in CreateNames : createCall(name) /\ UNCHANGED <<callVars, pureVars, otherVars>>
    \/ \E name \in CreateNames, env \in KeyStates :
          checkAPIKey(name, env) /\ UNCHANGED <<callVars, pureVars, otherVars>>
    \/ \E name \in CreateNames : getProviderName(name) /\ UNCHANGED <<callVars, pureVars, otherVars>>

Spec == Init /\ [][Next]_vars

\* start-up: registerAllProviders under any installation, with registerProvider,
\* setDefaultProvider and configureDocumentProcessor calls in between
InitRegister ==
    /\ CallInit /\ PureInit /\ ParkedInit /\ MockInit /\ ProcessInit
    /\ providers = Registered(EmptyRegistry, "mock", "MockLLM", "MockLLM").providers
    /\ providerClasses = Registered(EmptyRegistry, "mock", "MockLLM", "MockLLM").providerClasses
    /\ defaultProvider = Registered(EmptyRegistry, "mock", "MockLLM", "MockLLM").defaultProvider
    /\ lastOp = NoOp
    /\ environment \in [Backends -> DependencyStates]
    /\ registerAll = NoRegisterAll
    /\ nextInstance = 0
    /\ lastCreate = [name |-> NullName, registered |-> FALSE, threw |-> FALSE,
                     error |-> NoError, instance |-> NoInstance, default |-> "mock"]

NextRegister ==
    \/ registerAllProviders /\ UNCHANGED <<callVars, pureVars, otherVars>>
    \/ \E b \in Backends : importSettles(b) /\ UNCHANGED <<callVars, pureVars, otherVars>>
    \/ \E r \in Registrations :
          registerProvider(r[1], r[2], r[3]) /\ UNCHANGED <<callVars, pureVars, otherVars>>
    \/ \E name \in CreateNames : setDefaultProvider(name) /\ UNCHANGED <<callVars, pureVars, otherVars>>
    \/ \E name \in CreateNames :
          configureDocumentProcessor(name) /\ UNCHANGED <<callVars, pureVars, otherVars>>

SpecRegister == InitRegister /\ [][NextRegister]_vars

InitExtract == Init

NextExtract ==
    \/ \E im \in Impls, documentText \in Documents, options \in Options :
          extractPersonFromDocument(im, documentText, options)
    \/ \E v \in ParsedValues \cup {MockPerson} : structuredResolves(v)
    \/ structuredRejects
    \/ \E textResponse \in RawTexts \cup {MockResponse} : textResolves(textResponse)
    \/ textRejects
    \/ structuredRejectsWithoutError
    \/ textRejectsWithoutError

SpecExtract == InitExtract /\ [][NextExtract]_vars

\* two extractPersonFromDocument calls in flight at once
ConcurrentOptions == {o \in Options : o.provider \in {Absent, "openai", "nonexistent"}
                                       /\ o.llmOptions = NoOptions}
\* the registries the calls start from: the constructed one, and one with the
\* openai backend registered and either name the default
StartRegistries ==
    LET built == Registered(EmptyRegistry, "mock", "MockLLM", "MockLLM")
        both == Registered(built, "openai", "OpenAILLM", "OpenAILLM") IN
    {built, both, [both EXCEPT !.defaultProvider = "openai"]}
InitConcurrent ==
    /\ CallInit /\ PureInit /\ ParkedInit /\ MockInit /\ ProcessInit
    /\ \E reg \in StartRegistries :
          /\ providers = reg.providers
          /\ providerClasses = reg.providerClasses
          /\ defaultProvider = reg.defaultProvider
    /\ lastOp = NoOp
    /\ environment = AllInstalled
    /\ registerAll = NoRegisterAll
    /\ nextInstance = 0
    /\ lastCreate = [name |-> NullName, registered |-> FALSE, threw |-> FALSE,
                     error |-> NoError, instance |-> NoInstance, default |-> "mock"]
NextConcurrent ==
    \/ \E im \in Impls, options \in ConcurrentOptions :
          extractPersonFromDocument(im, <<Word("Smith")>>, options)
    \/ \E v \in {JArr(<<RecXY>>), RecNoLast, MockPerson} : structuredResolves(v)
    \/ structuredRejects
    \/ \E textResponse \in {JSONstringify(RecXY), Sorry} : textResolves(textResponse)
    \/ textRejects
    \/ structuredRejectsWithoutError
    \/ textRejectsWithoutError
    \/ otherCallRuns

SpecConcurrent == InitConcurrent /\ [][NextConcurrent]_vars

\* the document processor: registerAllProviders() and configureDocumentProcessor
\* called by the program, and two processWordDocument calls
InitProcess ==
    /\ RegistryInit /\ CallInit /\ PureInit /\ ParkedInit /\ MockInit
    /\ providersInitialized = FALSE
    /\ DEFAULT_LLM_PROVIDER \in {NullName, "openai"}
    /\ proc = [i \in Calls |-> NoProc]
NextProcess ==
    \/ registerAllProviders /\ UNCHANGED <<callVars, pureVars, otherVars>>
    \/ \E b \in Backends : importSettles(b) /\ UNCHANGED <<callVars, pureVars, otherVars>>
    \/ \E name \in {"openai", "claude", "nonexistent"} :
          configureDocumentProcessor(name) /\ UNCHANGED <<callVars, pureVars, otherVars>>
    \/ \E i \in Calls, provider \in {Absent, "openai"} : processWordDocument(i, provider)
    \/ \E i \in Calls, b \in Backends : procImportSettles(i, b)
    \/ \E i \in Calls : mammothResolves(i)
    \/ \E i \in Calls : mammothRejects(i)
    \/ \E i \in Calls, success \in BOOLEAN : extractionSettles(i, success)

SpecProcess == InitProcess /\ [][NextProcess]_vars

\* MockLLM instances made by the registry, asked and loaded
InitMock ==
    /\ RegistryInit /\ CallInit /\ PureInit /\ ParkedInit /\ ProcessInit
    /\ heap \in {<<o>> : o \in CallerObjects}
    /\ instances = <<>>
    /\ mockOut = NoMockOut
NextMock ==
    \/ \E options \in MockOptions : createMock(options)
    \/ \E i \in 1..MaxInstances, prompt \in MockPrompts, realLLM \in BOOLEAN,
          outcome \in RealOutcomes \cup {[threw |-> FALSE, text |-> <<>>]} :
          generateResponse(i, prompt, realLLM, outcome)
    \/ \E i \in 1..MaxInstances : loadMockResponses(i, MockPrompt, <<Word("R2")>>)

SpecMock == InitMock /\ [][NextMock]_vars

Records ==
    {JObj(SelectSeq(<< <<"first_name", f>>, <<"last_name", l>>, <<"gender", g>>,
                       <<"birth_date", b>> >>, LAMBDA kv : kv[2] # JUndefined)) :
        f \in {JUndefined, JStr("X"), JStr(""), JNull},
        l \in {JUndefined, JStr("Y"), JStr(""), JNum(1)},
        g \in {JUndefined, JStr("Male"), JStr("Other"), JNull},
        b \in {JUndefined, JStr("1850-03-15"), JStr("circa 1850")}}

InitNormalize == Init
NextNormalize == \E data \in ParsedValues : normalize(data)
SpecNormalize == InitNormalize /\ [][NextNormalize]_vars

InitValidate == Init
NextValidate == \E instance \in Records \cup {JStr("X"), JArr(<<RecXY>>)} : validate(instance)
SpecValidate == InitValidate /\ [][NextValidate]_vars

\* extractJsonFromText applied to the texts a backend can return
InitExtractJson == Init
NextExtractJson == \E text \in RawTexts \cup FencedTexts : extractJson(text)
SpecExtractJson == InitExtractJson /\ [][NextExtractJson]_vars

\* the prompt built for the document texts
InitPrompt == Init
NextPrompt == \E documentText \in DocumentTexts : buildPrompt(documentText)
SpecPrompt == InitPrompt /\ [][NextPrompt]_vars

(***************************************************************************)
(* Properties                                                              *)
(***************************************************************************)
\* records of the input universe that the single-record schema accepts
ValidRecords == {v \in ParsedValues : validatePerson(v).valid}

\* the call is over, its structured call failed and its free-text call
\* returned the text of one valid person record
FallbackGotValidRecord ==
    /\ pc = "done"
    /\ call.structuredThrew
    /\ call.textReturned
    /\ call.textResponse \in {JSONstringify(r) : r \in ValidRecords}

\* C1: when the structured call throws and the free-text call returns the text
\* of one valid person record, both source versions of extractPersonFromDocument
\* call the free-text path once with the prompt of the structured call and
\* return success with data equal to the one-element sequence of that record.
C1_FallbackReturnsOneRecordSequence ==
    FallbackGotValidRecord =>
        /\ call.textCalls = 1
        /\ call.textPrompt = call.structuredPrompt
        /\ result.success
        /\ result.data = JArr(<<JSONparse(call.textResponse).v>>)

\* C2: llmFactory.create with an explicit name that is not registered throws
\* the "is not registered" error for that name and returns no instance, in every
\* registry state reached by registerProvider and setDefaultProvider calls.
C2_UnregisteredNameFails ==
    (lastCreate.name # NullName /\ ~lastCreate.registered) =>
        /\ lastCreate.threw
        /\ lastCreate.error = NotRegisteredError(lastCreate.name)
        /\ lastCreate.instance = NoInstance

\* no extraction strategy parses the text and the direct parse fails too
Unparsable(text) == ~JSONparse(text).ok /\ extractJsonFromText(text) = JNull

\* C3: when no strategy can parse the text the free-text call returned, the
\* failure result of extractPersonFromDocument (part_008) has a rawResponse
\* property holding the complete text, next to the error of the fallback.
C3_FailureCarriesRawResponse ==
    (pc = "done" /\ impl = "persons" /\ call.textReturned /\ Unparsable(call.textResponse)) =>
        /\ ~result.success
        /\ "error" \in result.keys
        /\ "rawResponse" \in result.keys
        /\ result.rawResponse = call.textResponse

\* the part_008 call is over and validation rejected its normalized sequence
ValidationFailed ==
    /\ pc = "done"
    /\ impl = "persons"
    /\ call.validated
    /\ ~ValidationOf(call.normalized).valid

\* C4: whenever validation of the normalized sequence fails, the part_008
\* orchestrator returns success = false with exactly the properties errors and
\* data: errors are the validator's descriptors and data is the normalized
\* sequence itself, no record dropped or changed.
C4_ValidationFailureKeepsData ==
    ValidationFailed =>
        /\ ~result.success
        /\ result.keys = {"success", "errors", "data"}
        /\ result.errors # <<>>
        /\ result.errors = ValidationOf(call.normalized).errors
        /\ result.data = call.normalized

\* a validation failure returned with both records of a two-record sequence
C4_Witness ==
    /\ ValidationFailed
    /\ ~result.success
    /\ Len(result.data.a) = 2
    /\ ~validatePerson(result.data.a[1]).valid
    /\ validatePerson(result.data.a[2]).valid

\* the part_008 call failed validation at an element of a sequence of objects
ElementInvalid ==
    /\ ValidationFailed
    /\ validatePersons(call.normalized).valid
    /\ FirstInvalid(call.normalized.a) > 0

\* C5: when an element violates the single-record schema, the failure returned
\* is that of the first such element: its field-level descriptors and no
\* others, each of them identifying the (zero-based) index of the element.
C5_FailureIdentifiesFirstInvalidIndex ==
    ElementInvalid =>
        LET i == FirstInvalid(call.normalized.a) IN
        /\ Range(result.errors) = Range(validatePerson(call.normalized.a[i]).errors)
        /\ \A e \in Range(result.errors) :
              e.path # <<>> /\ e.path[1] = ToString(i - 1)

\* C6: a record without last_name fails validation with a descriptor naming
\* last_name whatever its other fields are, and a record whose only fields are
\* a string first_name and a string last_name passes.
C6_RequiredFieldEnforcement ==
    /\ (valOut # NoValOut /\ IsObject(valIn) /\ ~HasKey(valIn.o, "last_name")) =>
          /\ ~valOut.valid
          /\ \E e \in Range(valOut.errors) : e.name = "required" /\ NamesField(e, "last_name")
    /\ (/\ IsObject(valIn)
        /\ {kv[1] : kv \in Range(valIn.o)} = {"first_name", "last_name"}
        /\ Get(valIn, "first_name").t = "str"
        /\ Get(valIn, "last_name").t = "str") => valOut.valid

\* a record with other fields and no last_name was validated and rejected
C6_Witness ==
    /\ IsObject(valIn)
    /\ ~HasKey(valIn.o, "last_name")
    /\ HasKey(valIn.o, "gender")
    /\ Get(valIn, "first_name") = JStr("X")
    /\ \E e \in Range(valOut.errors) : NamesField(e, "last_name")

NonEmptyString(v) == v.t = "str" /\ v.s # ""

\* C7: in every record of a success result of the part_008 orchestrator,
\* first_name and last_name are non-empty strings.
C7_ValidNamesNonEmpty ==
    (pc = "done" /\ impl = "persons" /\ result.success) =>
        \A r \in Range(result.data.a) :
            NonEmptyString(Get(r, "first_name")) /\ NonEmptyString(Get(r, "last_name"))

\* C8: every success result of extractPersonFromDocument, in both source
\* versions and on both paths, carries data as a sequence.
C8_SuccessDataIsSequence ==
    (pc = "done" /\ result.success) => IsArray(result.data)

\* C9: for every record sequence R, the empty one included, normalizing R,
\* {persons: R}, {people: R} and {data: R} yields R, with normalizePersonsData
\* and with the inline normalisation of main.
C9_WrapperEquivalence ==
    IsArray(normIn) =>
        /\ normOut.once = normIn
        /\ normOut.persons = normIn
        /\ normOut.people = normIn
        /\ normOut.data = normIn
        /\ normOut.main = {normIn}

\* a two-record sequence was normalized bare and under the three wrappers
C9_Witness ==
    /\ IsArray(normIn)
    /\ Len(normIn.a) = 2
    /\ normOut.people = normIn
    /\ normOut.data = normIn

\* C10: normalizing an already normalized value changes nothing: for every
\* parsed value x, normalize(normalize(x)) = normalize(x), and a sequence is
\* returned as it is, same elements in the same order.
C10_NormalizationIdempotent ==
    normOut # NoNormOut =>
        /\ IsArray(normOut.once)
        /\ normOut.twice = normOut.once
        /\ IsArray(normIn) => normOut.once = normIn

\* a wrapped two-record sequence was unwrapped, and normalizing it again kept it
C10_Witness ==
    /\ IsObject(normIn)
    /\ IsArray(Get(normIn, "persons"))
    /\ Len(Get(normIn, "persons").a) = 2
    /\ normOut.once = Get(normIn, "persons")
    /\ normOut.twice = normOut.once

\* an object none of whose persons, people and data properties holds a sequence
BareRecord(v) == IsObject(v) /\ \A k \in WrapperKeys : ~IsArray(Get(v, k))

\* C11: normalizing a bare single record object (an object that is no wrapper
\* of a sequence) yields the one-element sequence holding that record unchanged.
C11_SingleObjectPromotion ==
    (normOut # NoNormOut /\ BareRecord(normIn)) => normOut.once = JArr(<<normIn>>)

\* the sample person of the mock provider was normalized to a one-element sequence
C11_Witness ==
    /\ normIn = MockPerson
    /\ BareRecord(normIn)
    /\ normOut.once = JArr(<<MockPerson>>)

\* the text is no JSON by itself and its first fenced block holds the JSON text
\* of the object or sequence v
FirstBlockHolds(text, v) ==
    /\ IsObject(v) \/ IsArray(v)
    /\ ~JSONparse(text).ok
    /\ text \in FencedForms(JSONstringify(v))

ResolutionFailed ==
    /\ pc = "done"
    /\ impl = "persons"
    /\ call.options.llm = NoInstance
    /\ \/ lastCreate.name # NullName /\ ~lastCreate.registered
       \/ lastCreate.threw

\* C13: when provider resolution fails in the part_008 orchestrator, no
\* structured and no free-text call is made and the caller receives the
\* registry's own error (not registered, or no provider registered), with
\* nothing put around its message.
C13_RegistryErrorPropagatedUnchanged ==
    ResolutionFailed =>
        /\ call.structuredCalls = 0
        /\ call.textCalls = 0
        /\ ~result.success
        /\ result.error.cause \in {NotRegisteredError(lastCreate.name), NoProviderError}
        /\ result.error.prefix = ""

\* C14: llmFactory.checkAPIKey(name) and llmFactory.getProviderName(name) throw
\* the not-registered error for every name that has no entry in the registry,
\* and for a registered name return what the static checkAPIKey or
\* getProviderName of its class returns.
C14_QueriesDelegateOrFail ==
    lastOp.op \in {"checkAPIKey", "getProviderName"} =>
        IF lastOp.name \notin DOMAIN lastOp.before.providerClasses
        THEN lastOp.threw /\ lastOp.error = NotRegisteredError(lastOp.name)
        ELSE /\ ~lastOp.threw
             /\ lastOp.value =
                  IF lastOp.op = "checkAPIKey"
                  THEN StaticCheckAPIKey(lastOp.before.providerClasses[lastOp.name], lastOp.env)
                  ELSE StaticGetProviderName(lastOp.before.providerClasses[lastOp.name])

\* C15: setDefaultProvider(name) with a name that has no entry in the registry
\* throws the not-registered error and leaves the three fields as they were;
\* with a registered name it sets defaultProvider to the name and leaves the
\* two mappings as they were.
C15_SetDefaultRequiresRegistered ==
    lastOp.op = "setDefaultProvider" =>
        IF lastOp.name \notin DOMAIN lastOp.before.providers
        THEN /\ lastOp.threw
             /\ lastOp.error = NotRegisteredError(lastOp.name)
             /\ Registry = lastOp.before
        ELSE /\ ~lastOp.threw
             /\ Registry = [lastOp.before EXCEPT !.defaultProvider = lastOp.name]

\* C16: registerProvider(name, class, factory) leaves exactly one entry for the
\* name, holding the new class and factory, keeps every other entry, and sets
\* defaultProvider to the name only if none was set before; registering the
\* same entry a second time changes nothing.
C16_RegisterIdempotentOverwrite ==
    /\ lastOp.op = "registerProvider" =>
          /\ DOMAIN providers = DOMAIN lastOp.before.providers \cup {lastOp.name}
          /\ DOMAIN providerClasses = DOMAIN lastOp.before.providerClasses \cup {lastOp.name}
          /\ providers[lastOp.name] = lastOp.factory
          /\ providerClasses[lastOp.name] = lastOp.class
          /\ \A n \in DOMAIN lastOp.before.providers \ {lastOp.name} :
                /\ providers[n] = lastOp.before.providers[n]
                /\ providerClasses[n] = lastOp.before.providerClasses[n]
          /\ defaultProvider = IF lastOp.before.defaultProvider = NullName THEN lastOp.name
                               ELSE lastOp.before.defaultProvider
    /\ \A r \in Registrations :
          /\ Registered(Registered(Registry, r[1], r[2], r[3]), r[1], r[2], r[3])
               = Registered(Registry, r[1], r[2], r[3])
          /\ Registered(EmptyRegistry, r[1], r[2], r[3]).defaultProvider = r[1]

\* the registered name mock was registered again with another class and
\* factory while openai was the default
C16_Witness ==
    /\ lastOp.op = "registerProvider"
    /\ lastOp.name = "mock"
    /\ lastOp.before.providers["mock"] = "MockLLM"
    /\ providers["mock"] = "AnthropicLLM"
    /\ providerClasses["mock"] = "OpenAILLM"
    /\ "openai" \in DOMAIN providers
    /\ lastOp.before.defaultProvider = "openai"
    /\ defaultProvider = "openai"

\* C17: when registerAllProviders has returned, a live backend whose module or
\* SDK package is not installed is reported false and was not registered by the
\* call, and every backend that has both was registered and is reported true.
C17_AbsentDependencyNotRegistered ==
    registerAll.pc = "done" =>
        \A b \in Backends :
            IF environment[b] = "ok"
            THEN registerAll.results[b] /\ b \in registerAll.added /\ b \in DOMAIN providers
            ELSE ~registerAll.results[b] /\ b \notin registerAll.added

\* C18: defaultProvider is mock after construction, and in every state reached
\* by registerProvider, setDefaultProvider, registerAllProviders and
\* configureDocumentProcessor calls it is the name of a registry entry, so that
\* create() without a name does not throw the no-provider-registered error.
C18_DefaultAlwaysRegistered ==
    /\ (lastOp = NoOp /\ registerAll = NoRegisterAll) => defaultProvider = "mock"
    /\ defaultProvider \in DOMAIN providers
    /\ create(NullName).error # NoProviderError

\* the template with its placeholder exchanged for text, nothing else touched
Substituted(text) ==
    LET i == IndexOf(PERSON_EXTRACTION_PROMPT, Placeholder) IN
    SubSeq(PERSON_EXTRACTION_PROMPT, 1, i - 1) \o text \o From(PERSON_EXTRACTION_PROMPT, i + 1)

\* C19: for every document text, the empty one and those holding $-sequences
\* or the placeholder included, the prompt is the template with its one
\* placeholder exchanged for the document text as it is.
C19_PromptHoldsTextVerbatim ==
    promptOut # <<>> => promptOut = Substituted(docIn)

\* the systemPrompt values the orchestrators fix for the structured call
PolicyPrompts == {StructuredPromptOpenAI, StructuredPromptDefault, StructuredPromptLegacy}

\* the call issued its structured call
StructuredCallIssued == pc # "idle" /\ call.structuredCalls = 1

\* C20: in the options of the structured call, model, temperature and maxTokens
\* hold the caller's value whenever the caller supplied one, whatever the
\* provider name, and systemPrompt holds the value fixed by the orchestrator.
C20_CallerOptionsKept ==
    StructuredCallIssued =>
        /\ \A k \in {"model", "temperature", "maxTokens"} :
              call.options.llmOptions[k] # Absent =>
                  call.llmOptions[k] = call.options.llmOptions[k]
        /\ call.llmOptions["systemPrompt"] \in PolicyPrompts

\* C21: in one extractPersonFromDocument call at most one structured call and
\* at most one free-text call are made; the free-text call is made only once
\* the structured call has failed, never while it is pending and never after
\* it resolved; and when the free-text call fails the call is over with a
\* failure and no further provider call.
C21_SingleStructuredThenSingleFallback ==
    /\ call.structuredCalls <= 1
    /\ call.textCalls <= 1
    /\ call.textCalls = 1 => call.structuredCalls = 1 /\ call.structuredThrew
    /\ pc = "awaitJSON" => call.textCalls = 0 /\ ~call.structuredThrew
    /\ pc = "awaitText" => call.textCalls = 1
    /\ (pc = "done" /\ call.structuredCalls = 1 /\ ~call.structuredThrew) => call.textCalls = 0
    /\ (pc = "done" /\ call.textCalls = 1 /\ ~call.textReturned) =>
          ~result.success /\ result.error.cause = ProviderError

\* a call is over whose structured call failed and whose one free-text call
\* failed too
C21_Witness ==
    /\ pc = "done"
    /\ call.structuredCalls = 1
    /\ call.structuredThrew
    /\ call.textCalls = 1
    /\ ~call.textReturned
    /\ ~result.success

\* C25: normalizePersonsData returns a sequence for every parsed value, be it a
\* sequence, a wrapper, a plain object, null or a primitive, and whenever the
\* part_008 orchestrator reaches validation, on the structured or the
\* fallback path, the value it validates is a sequence.
C25_NormalizedIsAlwaysSequence ==
    /\ \A v \in ParsedValues \cup {JUndefined} : IsArray(normalizePersonsData(v))
    /\ (impl = "persons" /\ call.validated) => IsArray(call.normalized)

\* on the fallback path the text of one bare record was parsed and the
\* validation received the one-element sequence of it
C25_Witness ==
    /\ pc = "done"
    /\ impl = "persons"
    /\ call.textReturned
    /\ call.validated
    /\ JSONparse(call.textResponse) = [ok |-> TRUE, v |-> RecXY]
    /\ call.normalized = JArr(<<RecXY>>)

\* the substring from the first open to the last close, parsed; null when there
\* is no such substring or it is no JSON
FirstToLastParsed(s, open, close) ==
    LET opens == {i \in 1..Len(s) : s[i] = open}
        closes == {i \in 1..Len(s) : s[i] = close} IN
    IF opens = {} \/ closes = {} THEN JNull
    ELSE LET a == CHOOSE i \in opens : \A j \in opens : i <= j
             b == CHOOSE i \in closes : \A j \in closes : j <= i IN
         IF b < a \/ ~JSONparse(SubSeq(s, a, b)).ok THEN JNull
         ELSE JSONparse(SubSeq(s, a, b)).v

\* C26: extractJsonFromText returns the direct parse of the whole text when
\* that parse succeeds; otherwise, with the fences handled, a text whose first
\* non-blank character is { gives the parse of its substring from the first {
\* to the last }, one whose first non-blank character is [ the parse of its
\* substring from the first [ to the last ], and any other text gives null.
C26_StrategiesInOrder ==
    textOut # NoTextOut =>
        LET direct == JSONparse(textIn)
            cleaned == CleanFences(textIn)
            first == IF Trim(cleaned) = <<>> THEN Space ELSE Trim(cleaned)[1] IN
        IF textIn # <<>> /\ direct.ok THEN textOut.json = direct.v
        ELSE IF first = LBrace THEN textOut.json = FirstToLastParsed(cleaned, LBrace, RBrace)
        ELSE IF first = LBrack THEN textOut.json = FirstToLastParsed(cleaned, LBrack, RBrack)
        ELSE textOut.json = JNull

\* a text that is no JSON, a wrapper object followed by a remark, gave the
\* wrapper: the substring from its first { to its last }
C26_Witness ==
    /\ ~JSONparse(textIn).ok
    /\ Indices(textIn, Fence) = {}
    /\ StartsWith(textIn, LBrace)
    /\ textIn[Len(textIn)] = Word("Done.")
    /\ textOut.json = Wrap("persons", JArr(<<RecXY>>))

C29_NeverRejectsResultShaped ==
    /\ pc # "rejected"
    /\ pc = "done" =>
          /\ result.success \in BOOLEAN
          /\ result.success => result.keys = {"success", "data"}
          /\ ~result.success => \/ result.keys = {"success", "error"}
                                \/ result.keys = {"success", "errors", "data"}

\* C22: when processWordDocument is called right after registerAllProviders()
\* finished and configureDocumentProcessor made a registered provider P the
\* default, names no provider and supplies no instance, and nothing else
\* touches the registry meanwhile, its extraction runs with an instance of the
\* class registered for P.
C22_ConfiguredProviderUsed ==
    \A i \in Calls :
        (/\ proc[i].configured # NullName
         /\ proc[i].provider = Absent
         /\ proc[i].pc \in {"extracting", "done"}
         /\ proc[i].llm # NoInstance
         /\ lastOp.op = "configureDocumentProcessor"
         /\ lastOp.name = proc[i].configured
         /\ \A j \in Calls \ {i} : proc[j].pc = "idle")
        => proc[i].llm.class = Lookup(providers, proc[i].configured)

\* C24: no step of an extractPersonFromDocument call changes the registry: the
\* name-to-factory mapping, the name-to-class mapping and the default are the
\* same after every step of every outcome, however two calls interleave, and a
\* step of the running call leaves the locals of the other call alone.
C24_ExtractionLeavesRegistryAlone ==
    [][/\ providers' = providers
       /\ providerClasses' = providerClasses
       /\ defaultProvider' = defaultProvider
       /\ \/ parked' = parked
          \/ parked' = [pc |-> pc, impl |-> impl, call |-> call, result |-> result]]_vars

\* one call was abandoned while its structured call is pending, the other ran
\* after it to a validation failure, each with a provider of its own
C24_Witness ==
    /\ parked.pc = "awaitJSON"
    /\ pc = "done"
    /\ result.keys = {"success", "errors", "data"}
    /\ parked.call.llm.class = "OpenAILLM"
    /\ call.llm.class = "OpenAILLM"
    /\ call.llm # parked.call.llm
    /\ defaultProvider = "openai"

\* C30: of the processWordDocument calls at most one runs registerAllProviders
\* and at most one has its initialization reset the default provider.
C30_InitializationAtMostOnce ==
    /\ Cardinality({i \in Calls : proc[i].ranRegisterAll}) <= 1
    /\ Cardinality({i \in Calls : proc[i].resetDefault}) <= 1

\* C23: every successful create call returns an instance no earlier call
\* returned, of the class registered under the name, and no two instances
\* made by create share a mutable object: the MockLLM instances have
\* different mockResponses objects.
C23_CreateReturnsUnsharedInstances ==
    /\ (lastCreate.name # NullName /\ ~lastCreate.threw) =>
          /\ lastCreate.instance.id = nextInstance
          /\ lastCreate.instance.class = Lookup(providers, lastCreate.name)
    /\ \A i, j \in DOMAIN instances :
          i # j => /\ instances[i].id # instances[j].id
                   /\ instances[i].mockResponses # instances[j].mockResponses

\* C28: with recordMode off, generateResponse returns the response canned for
\* the prompt if the instance has one, else its default response if one is
\* configured, else the built-in sample record, and leaves the instance and
\* its canned responses as they were.
C28_MockDeterministic ==
    (mockOut # NoMockOut /\ ~mockOut.before.instances[mockOut.instance].recordMode) =>
        LET self == mockOut.before.instances[mockOut.instance]
            canned == mockOut.before.heap[self.mockResponses] IN
        /\ ~mockOut.threw
        /\ mockOut.response =
              IF mockOut.prompt \in DOMAIN canned THEN canned[mockOut.prompt]
              ELSE IF self.defaultResponse # NullText THEN self.defaultResponse
              ELSE MockResponse
        /\ heap = mockOut.before.heap
        /\ instances = mockOut.before.instances

====
